---- MODULE Spec2Model ----
(***************************************************************************)
(* Memory Drift simulation core: GameEngine, MemoryFragment and            *)
(* ParticleSystem (src/renderer/js/game-engine.js, src/renderer/js/utils.js,*)
(* src/unnamed/part_000).                                                  *)
(*                                                                         *)
(* JavaScript numbers are modelled in fixed point:                         *)
(*   lengths            whole pixels                                       *)
(*   time               centiseconds          (3.0 s  = 300)               *)
(*   corruption, rates  1/10000               (1.0    = 10000)             *)
(*   velocity           1/10 pixel per second                              *)
(*   angles             milliradians                                       *)
(*   mouse influence    per mille             (1.0    = 1000)              *)
(* Fields that only the drawing code reads (size, colours, rotation,       *)
(* pulsePhase, pattern, particle position/velocity/colour) are left out.   *)
(***************************************************************************)
EXTENDS Integers, Sequences, FiniteSets, TLC

VARIABLES
    state,            \* GameEngine.state
    currentLevel,     \* GameEngine.currentLevel (0-based)
    mousePos,         \* GameEngine.mousePos
    memoryFragments,  \* GameEngine.memoryFragments
    gravityWells,     \* GameEngine.gravityWells
    connections,      \* GameEngine.connections
    targetPositions,  \* GameEngine.targetPositions
    particles,        \* ParticleSystem.particles
    canvas,           \* canvas.width / canvas.height
    saved,            \* what the last operation wrote to localStorage (and to saveData)
    allConnected,     \* checkLevelCompletion() as the last operation computed it
    emitted,          \* events emitted by the last operation, in order
    threw,            \* the last operation ended in an uncaught TypeError
    completions,      \* levelComplete events since the last levelStarted / returnedToMenu
    steps,            \* simulation steps since the level was started: PLAYING ticks,
                      \* wells created, accelerateHealing calls
    draw,             \* generateConstellationPattern's loop: where it is, its count,
                      \* and the samples rejected for the point being drawn
    stored,           \* the localStorage entry 'memoryDriftProgress' the constructor
                      \* reads, until initialize() has used what was loaded
    events,           \* EventEmitter.events: the callbacks registered with on(), in
                      \* the order of registration, each with the event it listens to
    calls,            \* the callbacks the last operation's emits invoked, in order
    loop              \* the game loop: GameEngine.running, the gameLoop callbacks
                      \* requested for the next animation frame (queued), those of
                      \* the frame under way still to run (due), and the updates and
                      \* frames run so far

vars == << state, currentLevel, mousePos, memoryFragments, gravityWells,
           connections, targetPositions, particles, canvas, saved,
           allConnected, emitted, threw, completions, steps, draw, stored, loop, events, calls >>

----------------------------------------------------------------------------
(* Bounds of the model *)

MaxFragments == 3
MaxSteps == 2
MaxCheckFragments == 4

----------------------------------------------------------------------------
(* Program constants *)

mouseInfluenceRadius == 150
maxParticles == 500
wellStrength == 500
wellLifetime == 300
wellRadius == 100
healRate == 100
acceleratedHealCap == 5000
scatterMargin == 100
edgeMargin == 50
connectDistance == 80
targetAttraction == 50
clickParticles == 15
healParticles == 3

CorruptionOne == 100 * 100
HealedBelow == 3 * 1000      \* corruptionLevel < 0.3
TargetHealPerCs == 50        \* deltaTime * 0.5, per centisecond

levels ==
    << [number |-> 1, fragmentCount |-> 5,  baseCorruption |-> 8000, patternType |-> "circle"],
       [number |-> 2, fragmentCount |-> 8,  baseCorruption |-> 8500, patternType |-> "spiral"],
       [number |-> 3, fragmentCount |-> 12, baseCorruption |-> 9000, patternType |-> "grid"],
       [number |-> 4, fragmentCount |-> 15, baseCorruption |-> 9000, patternType |-> "constellation"],
       [number |-> 5, fragmentCount |-> 20, baseCorruption |-> 9500, patternType |-> "mandala"] >>

\* The number of fragments the model spawns for a level: the catalog's count,
\* cut to the model bound.
FragmentCount(level) ==
    IF level.fragmentCount > MaxFragments THEN MaxFragments ELSE level.fragmentCount

----------------------------------------------------------------------------
(* Inputs *)

DtSet == {100, 4000}                         \* deltaTime: 1 s, 40 s
LevelInputs == {-1, 0, 3, Len(levels)}       \* startLevel arguments
ScatterPoints == { <<836, 370>>, <<424, 360>> }
ConstellationPoints == { <<690, 360>>, <<300, 500>> }
MousePoints == { <<0, 0>>, <<856, 360>> }
PhaseInit == {1571}                          \* initial driftPhase (Math.random() * 2 pi)
AccelAmounts == {1000, 6000, -3000}          \* accelerateHealing amounts
LifeSeeds == {0}
\* Where the sampled layouts gather the fragments
ScatterHome == << 836, 370 >>
ConstellationHome == << 690, 360 >>
\* Of the random layouts over a set of points, those sampled: the first
\* fragment anywhere, the others together at `home`
SampledLayouts(count, points, home) ==
    { [ i \in 1..count |-> IF i = 1 THEN first ELSE home ] : first \in points }
ParticleLifetimes == <<50, 149>>             \* Utils.random(0.5, 1.5)
KeyCodes == {"Escape", "Space", "KeyA"}
\* currentLevel values the game writes to storage: startNewGame saves 0,
\* nextLevel saves the incremented index before startLevel wraps it
SavedLevels == 0 .. Len(levels)
\* corruptionLevel values on either side of the healed threshold
CheckCorruptions == {1000, 3 * 1000}

----------------------------------------------------------------------------
(* Utils and Vector2 *)

Abs(x) == IF x < 0 THEN -x ELSE x

Min(a, b) == IF a < b THEN a ELSE b

Max(a, b) == IF a > b THEN a ELSE b

\* Real division rounded toward zero (b > 0).
Div(a, b) == IF a >= 0 THEN a \div b ELSE -((-a) \div b)

clamp(value, lo, hi) == Min(Max(value, lo), hi)

\* F(v), with v evaluated once
With(v, F(_)) == CHOOSE r \in { F(x) : x \in { v } } : TRUE

RECURSIVE SqrtSearch(_, _, _)
SqrtSearch(n, lo, hi) ==
    IF hi - lo <= 1 THEN lo
    ELSE With((lo + hi) \div 2,
              LAMBDA mid : IF mid * mid <= n THEN SqrtSearch(n, mid, hi)
                                             ELSE SqrtSearch(n, lo, mid))

\* floor(Math.sqrt(n))
ISqrt(n) == With(n, LAMBDA v : SqrtSearch(v, 0, Min(v + 1, 46341)))

add(a, b) == << a[1] + b[1], a[2] + b[2] >>

subtract(a, b) == << a[1] - b[1], a[2] - b[2] >>

\* Square of Vector2.distance / Utils.distance
DistSq(a, b) == (a[1] - b[1]) * (a[1] - b[1]) + (a[2] - b[2]) * (a[2] - b[2])

distance(a, b) == ISqrt(DistSq(a, b))

\* cos at multiples of 6 degrees, times 1000
CosTable ==
    << 1000, 995, 978, 951, 914, 866, 809, 743, 669, 588, 500, 407, 309, 208, 105,
       0, -105, -208, -309, -407, -500, -588, -669, -743, -809, -866, -914, -951, -978, -995,
       -1000, -995, -978, -951, -914, -866, -809, -743, -669, -588, -500, -407, -309, -208, -105,
       0, 105, 208, 309, 407, 500, 588, 669, 743, 809, 866, 914, 951, 978, 995 >>

\* cos / sin of k sixtieths of a turn, times 1000
CosTurn(k) == CosTable[(k % 60) + 1]

SinTurn(k) == CosTable[((k + 45) % 60) + 1]

\* An angle in milliradians (>= 0) as sixtieths of a turn, rounded to nearest
Sixtieths(mrad) == (mrad * 60 + 3141) \div 6283

----------------------------------------------------------------------------
(* VisualGenerator: target layouts.  Each generator yields the set of        *)
(* position lists it can return (a singleton unless it draws random numbers) *)

CeilDiv(a, b) == (a + b - 1) \div b

CeilSqrt(n) == LET r == ISqrt(n) IN IF r * r = n THEN r ELSE r + 1

generateCirclePattern(count, centerX, centerY, radius) ==
    { [ p \in 1..count |->
          LET k == Div(60 * (p - 1), count)
          IN << centerX + Div(radius * CosTurn(k), 1000),
                centerY + Div(radius * SinTurn(k), 1000) >> ] }

generateSpiralPattern(count, centerX, centerY) ==
    { [ p \in 1..count |->
          LET k == 12 * (p - 1)
              radius == 50 + (p - 1) * 25
          IN << centerX + Div(radius * CosTurn(k), 1000),
                centerY + Div(radius * SinTurn(k), 1000) >> ] }

generateGridPattern(count, width, height) ==
    LET gridSize == CeilSqrt(count)
    IN { [ p \in 1..count |->
             LET row == (p - 1) \div gridSize
                 col == (p - 1) % gridSize
             IN << Div((col + 1) * width, gridSize + 1),
                   Div((row + 1) * height, gridSize + 1) >> ] }

constellationAttempts == 50

\* Variant: every ring is filled, whatever count is
generateMandalaRings(count, centerX, centerY) ==
    LET itemsPerRing == CeilDiv(count, 3)
    IN { [ p \in 1..(3 * itemsPerRing) |->
             LET ring == (p - 1) \div itemsPerRing
                 radius == 80 + ring * 80
                 k == Div(60 * ((p - 1) % itemsPerRing), itemsPerRing)
             IN << centerX + Div(radius * CosTurn(k), 1000),
                   centerY + Div(radius * SinTurn(k), 1000) >> ] }

\* The do-while loop redraws a point while it lies within 80px of an earlier
\* one and fewer than 50 draws were made; the 50th draw is kept as it is.
generateConstellationPattern(count, width, height) ==
    { s \in SampledLayouts(count,
                           { q \in ConstellationPoints :
                               /\ q[1] >= scatterMargin /\ q[1] <= width - scatterMargin
                               /\ q[2] >= scatterMargin /\ q[2] <= height - scatterMargin },
                           ConstellationHome) :
        \A p \in 1..count :
          \E attempts \in {1, constellationAttempts} :
             attempts < constellationAttempts =>
               \A e \in 1..(p - 1) : DistSq(s[e], s[p]) >= connectDistance * connectDistance }

generateMandalaPattern(count, centerX, centerY) ==
    LET itemsPerRing == CeilDiv(count, 3)
    IN { [ p \in 1..count |->
             LET ring == (p - 1) \div itemsPerRing
                 radius == 80 + ring * 80
                 k == Div(60 * ((p - 1) % itemsPerRing), itemsPerRing)
             IN << centerX + Div(radius * CosTurn(k), 1000),
                   centerY + Div(radius * SinTurn(k), 1000) >> ] }

generatePatternPositions(patternType, count) ==
    LET centerX == Div(canvas.width, 2)
        centerY == Div(canvas.height, 2)
    IN CASE patternType = "circle" ->
              generateCirclePattern(count, centerX, centerY,
                                    Div(Min(canvas.width, canvas.height) * 3, 10))
         [] patternType = "spiral" -> generateSpiralPattern(count, centerX, centerY)
         [] patternType = "grid" -> generateGridPattern(count, canvas.width, canvas.height)
         [] patternType = "constellation" ->
              generateConstellationPattern(count, canvas.width, canvas.height)
         [] patternType = "mandala" -> generateMandalaPattern(count, centerX, centerY)
         [] OTHER -> generateCirclePattern(count, centerX, centerY, 200)

\* Utils.random(margin, canvas.width - margin) for each coordinate
generateScatteredPositions(count) ==
    SampledLayouts(count,
                   { q \in ScatterPoints :
                       /\ q[1] >= scatterMargin /\ q[1] <= canvas.width - scatterMargin
                       /\ q[2] >= scatterMargin /\ q[2] <= canvas.height - scatterMargin },
                   ScatterHome)

----------------------------------------------------------------------------
(* MemoryFragment *)

\* new MemoryFragment(x, y, size, corruptionLevel, ...) followed by the physics
\* properties startLevel adds
MemoryFragment(pos, corruption, phase) ==
    [ position |-> pos, basePosition |-> pos, velocity |-> <<0, 0>>, mass |-> 1,
      corruptionLevel |-> corruption, healRate |-> healRate,
      acceleratedHealRate |-> 0, driftPhase |-> phase ]

\* Math.max(0, 1 - distToMouse / influenceRadius)
MouseInfluence(pos, mouse, influenceRadius) ==
    With(distance(pos, mouse),
         LAMBDA dist : Max(0, 1000 - Div(dist * 1000, influenceRadius)))

\* driftPhase is read only through sin(driftPhase) and cos(0.7 driftPhase),
\* which both repeat after ten turns; it is kept modulo that period
DriftPeriod == 10 * 6283

\* Variant: the drift is added to where the physics step left the fragment
FragmentUpdateInPlace(f, deltaTime, mouse, influenceRadius) ==
    With(MouseInfluence(f.position, mouse, influenceRadius), LAMBDA mouseInfluence :
    LET phase == (f.driftPhase + deltaTime * 5) % DriftPeriod
        driftX == SinTurn(Sixtieths(phase))
        driftY == CosTurn(Sixtieths(Div(phase * 7, 10)))
        totalHealRate == f.healRate + f.acceleratedHealRate
        adjustedHealRate == Div(totalHealRate * (1000 + 2 * mouseInfluence), 1000)
    IN [ f EXCEPT
           !.driftPhase = phase,
           !.position = << f.position[1] + Div(driftX * (2000 - mouseInfluence), 200000),
                           f.position[2] + Div(driftY * (2000 - mouseInfluence), 200000) >>,
           !.corruptionLevel = Max(0, f.corruptionLevel - Div(adjustedHealRate * deltaTime, 100)),
           !.acceleratedHealRate = Div(f.acceleratedHealRate * 95, 100) ])

\* MemoryFragment.update(deltaTime, mousePos, influenceRadius)
FragmentUpdate(f, deltaTime, mouse, influenceRadius) ==
    With(MouseInfluence(f.position, mouse, influenceRadius), LAMBDA mouseInfluence :
    LET phase == (f.driftPhase + deltaTime * 5) % DriftPeriod
        driftX == SinTurn(Sixtieths(phase))
        driftY == CosTurn(Sixtieths(Div(phase * 7, 10)))
        totalHealRate == f.healRate + f.acceleratedHealRate
        adjustedHealRate == Div(totalHealRate * (1000 + 2 * mouseInfluence), 1000)
    IN [ f EXCEPT
           !.driftPhase = phase,
           !.position = << f.basePosition[1] + Div(driftX * (2000 - mouseInfluence), 200000),
                           f.basePosition[2] + Div(driftY * (2000 - mouseInfluence), 200000) >>,
           !.corruptionLevel = Max(0, f.corruptionLevel - Div(adjustedHealRate * deltaTime, 100)),
           !.acceleratedHealRate = Div(f.acceleratedHealRate * 95, 100) ])

\* Variant: the sum is stored without the cap
accelerateHealingUncapped(f, amount) ==
    [ f EXCEPT !.acceleratedHealRate = f.acceleratedHealRate + amount ]

\* MemoryFragment.accelerateHealing(amount)
accelerateHealing(f, amount) ==
    [ f EXCEPT !.acceleratedHealRate = Min(acceleratedHealCap, f.acceleratedHealRate + amount) ]

----------------------------------------------------------------------------
(* ParticleSystem *)

\* new Particle(...): lifetime = Utils.random(0.5, 1.5), maxLifetime = lifetime
Particle(seed, k) ==
    LET life == ParticleLifetimes[((seed + k) % Len(ParticleLifetimes)) + 1]
    IN [ lifetime |-> life, maxLifetime |-> life ]

\* Variant: an overflowing pool keeps its oldest particles
ParticleEmitOldest(pool, count, seed) ==
    LET grown == pool \o [ k \in 1..count |-> Particle(seed, k) ]
    IN IF Len(grown) > maxParticles THEN SubSeq(grown, 1, maxParticles) ELSE grown

\* Variant: clear drops only the particles whose lifetime is over
clearDead(pool) == SelectSeq(pool, LAMBDA p : p.lifetime > 0)

\* ParticleSystem.clear()
clear(pool) == << >>

\* ParticleSystem.emit(x, y, count, color)
ParticleEmit(pool, count, seed) ==
    LET grown == pool \o [ k \in 1..count |-> Particle(seed, k) ]
    IN IF Len(grown) > maxParticles
       THEN SubSeq(grown, Len(grown) - maxParticles + 1, Len(grown))
       ELSE grown

Alive(p) == p.lifetime > 0

\* Variant: the filter looks at the lifetime before this tick's decrement
ParticleUpdateLate(pool, deltaTime) ==
    [ k \in 1..Len(SelectSeq(pool, Alive)) |->
        [ SelectSeq(pool, Alive)[k] EXCEPT !.lifetime = @ - deltaTime ] ]

\* ParticleSystem.update(deltaTime): Particle.update on each, dead ones filtered out
ParticleUpdate(pool, deltaTime) ==
    SelectSeq([ k \in 1..Len(pool) |-> [ pool[k] EXCEPT !.lifetime = @ - deltaTime ] ], Alive)

----------------------------------------------------------------------------
(* EventEmitter, as seen from the engine: the events of one operation *)

Event(name, args) == [ name |-> name, args |-> args ]

\* Variant: no try/catch around the callback; the first callback that
\* throws ends the forEach and the emit
emitUnguarded(registered, event) ==
    LET own == SelectSeq(registered, LAMBDA c : c.event = event.name)
        throwers == { k \in 1..Len(own) : own[k].throws }
    IN IF throwers = {}
       THEN [ calls |-> own, raised |-> FALSE ]
       ELSE [ calls |-> SubSeq(own, 1, CHOOSE k \in throwers : \A j \in throwers : k <= j),
              raised |-> TRUE ]

\* this.events[event].forEach(callback => { try { callback(...args) } catch (e) { ... } })
RECURSIVE forEachCallback(_)
forEachCallback(callbacks) ==
    IF callbacks = << >> THEN << >>
    ELSE IF Head(callbacks).throws
         THEN << Head(callbacks) >> \o forEachCallback(Tail(callbacks))   \* caught, logged
         ELSE << Head(callbacks) >> \o forEachCallback(Tail(callbacks))

\* EventEmitter.emit(event, ...args): the callbacks it invokes, and whether
\* it raised an error to its caller
emit(registered, event) ==
    [ calls |-> forEachCallback(SelectSeq(registered, LAMBDA c : c.event = event.name)),
      raised |-> FALSE ]

\* The emits of one operation, in order; an emit that raised would end the
\* operation there
RECURSIVE Deliver(_, _)
Deliver(registered, emits) ==
    IF emits = << >> THEN [ emitted |-> << >>, calls |-> << >>, raised |-> FALSE ]
    ELSE LET first == emit(registered, Head(emits))
             rest == Deliver(registered, Tail(emits))
         IN IF first.raised
            THEN [ emitted |-> << Head(emits) >>, calls |-> first.calls, raised |-> TRUE ]
            ELSE [ emitted |-> << Head(emits) >> \o rest.emitted,
                   calls |-> first.calls \o rest.calls,
                   raised |-> rest.raised ]

----------------------------------------------------------------------------
(* GameEngine: per-tick physics *)

WellAlive(w) == w.lifetime > 0

\* Variant: a well is dropped on the tick after the one that used it up
AgeWellsLate(wells, deltaTime) ==
    [ k \in 1..Len(SelectSeq(wells, WellAlive)) |->
        [ SelectSeq(wells, WellAlive)[k] EXCEPT !.lifetime = @ - deltaTime ] ]

\* gravityWells.filter(well => { well.lifetime -= deltaTime; return well.lifetime > 0 })
AgeWells(wells, deltaTime) ==
    SelectSeq([ k \in 1..Len(wells) |-> [ wells[k] EXCEPT !.lifetime = @ - deltaTime ] ],
              WellAlive)

\* direction.multiply(force * deltaTime) for one well, or no change
WellPull(pos, well, deltaTime) ==
    LET d2 == DistSq(pos, well.position)
    IN IF d2 < well.radius * well.radius /\ d2 > 0
       THEN With(ISqrt(d2), LAMBDA dist :
               << Div((well.position[1] - pos[1]) * well.strength * deltaTime, dist * d2 * 10),
                  Div((well.position[2] - pos[2]) * well.strength * deltaTime, dist * d2 * 10) >>)
       ELSE << 0, 0 >>

RECURSIVE ApplyWells(_, _, _, _)
ApplyWells(vel, pos, wells, deltaTime) ==
    IF wells = << >> THEN vel
    ELSE With(add(vel, WellPull(pos, Head(wells), deltaTime)),
              LAMBDA pulled : ApplyWells(pulled, pos, Tail(wells), deltaTime))

HasTarget(index) == index + 1 <= Len(targetPositions)

\* dist > 20: the weak attraction toward the target applies
AttractsToTarget(pos, target) == DistSq(pos, target) > 20 * 20

\* dist < 50: the fragment heals near its target
NearTarget(pos, target) == DistSq(pos, target) < 50 * 50

TargetPull(pos, target, deltaTime) ==
    With(distance(pos, target), LAMBDA dist :
         << Div((target[1] - pos[1]) * targetAttraction * deltaTime, dist * 10),
            Div((target[2] - pos[2]) * targetAttraction * deltaTime, dist * 10) >>)

\* The body of memoryFragments.forEach in update(), for fragment `index` (0-based)
StepFragment(f, index, wells, deltaTime) ==
    LET target == targetPositions[index + 1]
        c1 == IF HasTarget(index) /\ NearTarget(f.position, target)
              THEN Max(0, f.corruptionLevel - TargetHealPerCs * deltaTime)
              ELSE f.corruptionLevel
    IN With(ApplyWells(f.velocity, f.position, wells, deltaTime), LAMBDA v1 :
       With(IF HasTarget(index) /\ AttractsToTarget(f.position, target)
            THEN add(v1, TargetPull(f.position, target, deltaTime))
            ELSE v1, LAMBDA v2 :
       With(<< f.position[1] + Div(Div(v2[1], 10) * deltaTime, 100),
               f.position[2] + Div(Div(v2[2], 10) * deltaTime, 100) >>, LAMBDA moved :
       LET kept == << clamp(moved[1], edgeMargin, canvas.width - edgeMargin),
                      clamp(moved[2], edgeMargin, canvas.height - edgeMargin) >>
           damped == << Div(v2[1] * 95, 100), Div(v2[2] * 95, 100) >>
       IN With([ f EXCEPT !.position = kept, !.velocity = damped, !.corruptionLevel = c1 ],
               LAMBDA stepped : FragmentUpdate(stepped, deltaTime, mousePos,
                                               mouseInfluenceRadius)))))

\* Fragments that pass `dist < 50` this tick, and so may emit healing particles
HealingCandidates ==
    { i \in 1..Len(memoryFragments) :
        HasTarget(i - 1) /\ NearTarget(memoryFragments[i].position, targetPositions[i]) }

RECURSIVE EmitHealing(_, _, _, _)
EmitHealing(pool, i, emitters, seed) ==
    IF i > Len(memoryFragments) THEN pool
    ELSE EmitHealing(IF i \in emitters THEN ParticleEmit(pool, healParticles, seed) ELSE pool,
                     i + 1, emitters, seed)

----------------------------------------------------------------------------
(* GameEngine: connections, completion, progress *)

Healed(f) == f.corruptionLevel < HealedBelow

\* Variant: closeness alone connects two fragments
ConnectsNear(f1, f2) ==
    DistSq(f1.position, f2.position) < connectDistance * connectDistance

Connects(f1, f2) ==
    /\ DistSq(f1.position, f2.position) < connectDistance * connectDistance
    /\ Healed(f1) /\ Healed(f2)

RECURSIVE ConnectionsFrom(_, _, _)
ConnectionsFrom(frags, i, j) ==
    IF i > Len(frags) THEN << >>
    ELSE IF j > Len(frags) THEN ConnectionsFrom(frags, i + 1, i + 2)
    ELSE (IF Connects(frags[i], frags[j])
          THEN << [ from |-> i - 1, to |-> j - 1,
                    strength |-> CorruptionOne
                                 - Max(frags[i].corruptionLevel, frags[j].corruptionLevel) ] >>
          ELSE << >>) \o ConnectionsFrom(frags, i, j + 1)

\* GameEngine.updateConnections()
updateConnections(frags) == ConnectionsFrom(frags, 1, 2)

\* Variant: connections followed from `from` to `to` only
NeighbourForward(conn, current, visited) ==
    IF conn.from = current /\ conn.to \notin visited THEN conn.to ELSE -1

\* The fragment index one connection adds to the stack while `current` is
\* being expanded, or -1
Neighbour(conn, current, visited) ==
    IF conn.from = current /\ conn.to \notin visited THEN conn.to
    ELSE IF conn.to = current /\ conn.from \notin visited THEN conn.from
    ELSE -1

\* this.connections.forEach(...) for one popped index: <<visited, stack>>
RECURSIVE Expand(_, _, _, _)
Expand(conns, current, visited, stack) ==
    IF conns = << >> THEN << visited, stack >>
    ELSE With(Neighbour(Head(conns), current, visited), LAMBDA n :
         With(IF n = -1 THEN << Tail(conns), visited, stack >>
              ELSE << Tail(conns), visited \cup {n}, Append(stack, n) >>,
              LAMBDA next : Expand(next[1], current, next[2], next[3])))

RECURSIVE Traverse(_, _, _)
Traverse(conns, visited, stack) ==
    IF stack = << >> THEN visited
    ELSE LET current == stack[Len(stack)]
             rest == SubSeq(stack, 1, Len(stack) - 1)
         IN With(Expand(conns, current, visited, rest),
                 LAMBDA r : Traverse(conns, r[1], r[2]))

\* GameEngine.checkLevelCompletion()
checkLevelCompletion(frags, conns) ==
    IF Len(frags) = 0 THEN FALSE
    ELSE IF Cardinality({ i \in 1..Len(frags) : Healed(frags[i]) }) < Len(frags) THEN FALSE
    ELSE Cardinality(Traverse(conns, {0}, << 0 >>)) = Len(frags)

RECURSIVE SumHealing(_, _)
SumHealing(frags, i) ==
    IF i > Len(frags) THEN 0
    ELSE (CorruptionOne - frags[i].corruptionLevel) + SumHealing(frags, i + 1)

\* Variant: the two halves are added without being weighted
getProgressUnweighted(frags, conns) ==
    IF Len(frags) = 0 THEN 0
    ELSE LET maxConnections == (Len(frags) * (Len(frags) - 1)) \div 2
         IN Div(SumHealing(frags, 1), Len(frags))
            + (IF maxConnections > 0 THEN Div(Len(conns) * CorruptionOne, maxConnections) ELSE 0)

\* GameEngine.getProgress(), in 1/10000
getProgress(frags, conns) ==
    IF Len(frags) = 0 THEN 0
    ELSE LET healingProgress == Div(SumHealing(frags, 1), Len(frags))
             maxConnections == (Len(frags) * (Len(frags) - 1)) \div 2
             connectionProgress == IF maxConnections > 0
                                   THEN Div(Len(conns) * CorruptionOne, maxConnections)
                                   ELSE 0
         IN Div(healingProgress + connectionProgress, 2)

----------------------------------------------------------------------------
(* Initial state: a constructed and initialized engine; currentLevel is the  *)
(* level restored from storage, 0 when nothing was saved                   *)

\* JSON values a stored text can parse to: null, a bare number, an object
\* with or without a currentLevel member
JsonNull == [ type |-> "null", hasLevel |-> FALSE, level |-> 0 ]
JsonNumber == [ type |-> "number", hasLevel |-> FALSE, level |-> 0 ]
JsonObject == [ type |-> "object", hasLevel |-> FALSE, level |-> 0 ]
JsonProgress(n) == [ type |-> "object", hasLevel |-> TRUE, level |-> n ]

StoredLevels == {-1, 0, 3, Len(levels), Len(levels) + 2}

\* localStorage.getItem either throws, returns null (no such key), or
\* returns a text that JSON.parse accepts or not
StoredEntries ==
    { [ access |-> "throws", wellFormed |-> FALSE, value |-> JsonNull ],
      [ access |-> "missing", wellFormed |-> FALSE, value |-> JsonNull ],
      [ access |-> "text", wellFormed |-> FALSE, value |-> JsonNull ] }
    \cup { [ access |-> "text", wellFormed |-> TRUE, value |-> v ] :
             v \in { JsonNull, JsonNumber, JsonObject }
                   \cup { JsonProgress(n) : n \in StoredLevels } }

\* initialize() has run
Used == [ access |-> "used", wellFormed |-> FALSE, value |-> JsonNull ]

\* Utils.loadFromLocalStorage(key, defaultValue)
loadFromLocalStorage(entry, defaultValue) ==
    IF entry.access = "throws" THEN defaultValue            \* catch
    ELSE IF entry.access = "missing" THEN defaultValue      \* data is null
    ELSE IF ~entry.wellFormed THEN defaultValue             \* JSON.parse throws: catch
    ELSE entry.value

\* GameEngine.loadProgress()
loadProgress(entry) == loadFromLocalStorage(entry, JsonProgress(0))

\* No generator call is under way, and the engine is initialized
Quiet ==
    /\ draw = [ pc |-> "idle", count |-> 0, attempts |-> 0 ]
    /\ stored = Used
    /\ loop = [ running |-> FALSE, queued |-> 0, due |-> 0, updates |-> 0, frames |-> 0 ]
    /\ events = << >>
    /\ calls = << >>

Init ==
    /\ state = "MENU"
    /\ currentLevel \in SavedLevels
    /\ mousePos = << 0, 0 >>
    /\ memoryFragments = << >>
    /\ gravityWells = << >>
    /\ connections = << >>
    /\ targetPositions = << >>
    /\ particles = << >>
    /\ canvas = [ width |-> 1280, height |-> 720 ]
    /\ saved = << >>
    /\ allConnected = FALSE
    /\ emitted = << Event("initialized", << >>) >>
    /\ threw = FALSE
    /\ completions = 0
    /\ steps = 0
    /\ Quiet

----------------------------------------------------------------------------
(* GameEngine operations *)

\* What one operation reports: the events it emitted, whether it threw, what
\* it wrote to storage, and what its completion check returned
Results(emits, error, written, complete) ==
    /\ \E delivery \in { Deliver(events, emits) } :
          /\ emitted' = delivery.emitted
          /\ calls' = delivery.calls
          /\ threw' = (error \/ delivery.raised)
    /\ saved' = written
    /\ allConnected' = complete

\* The operation leaves alone what does not belong to the named part
IdleExcept(part) ==
    /\ IF part = "draw" THEN TRUE ELSE UNCHANGED draw
    /\ IF part = "stored" THEN TRUE ELSE UNCHANGED stored
    /\ IF part = "loop" THEN TRUE ELSE UNCHANGED loop
    /\ IF part = "events" THEN TRUE ELSE UNCHANGED events

Idle == IdleExcept("engine")

Reports(emits, error, written, complete) ==
    /\ Results(emits, error, written, complete)
    /\ Idle

\* A call that returns at once
Returned ==
    /\ Results(<< >>, FALSE, << >>, FALSE)
    /\ UNCHANGED << state, currentLevel, mousePos, memoryFragments, gravityWells,
                    connections, targetPositions, particles, canvas, completions, steps >>

\* An operation that returns at once
Nothing == Returned /\ Idle

\* Variant: an index past the end stays on the last level
WrapLevelIndexLast(levelIndex) ==
    IF levelIndex >= Len(levels) THEN Len(levels) - 1 ELSE levelIndex

\* if (levelIndex >= this.levels.length) levelIndex = 0
WrapLevelIndex(levelIndex) == IF levelIndex >= Len(levels) THEN 0 ELSE levelIndex

\* Variant: fragments start at the level's baseCorruption, as the first
\* engine revision had it
StartCorruptionBase(level) == level.baseCorruption

\* The corruptionLevel startLevel passes to new MemoryFragment
StartCorruption(level) == CorruptionOne

\* GameEngine.startLevel(levelIndex); `written` is what the caller saved before
StartLevelBody(levelIndex, written) ==
    LET index == WrapLevelIndex(levelIndex)
    IN /\ currentLevel' = index
       /\ gravityWells' = << >>
       /\ connections' = << >>
       /\ particles' = << >>
       /\ UNCHANGED << mousePos, canvas >>
       /\ IF index < 0
          THEN \* this.levels[levelIndex] is undefined: level.patternType throws
               /\ memoryFragments' = << >>
               /\ targetPositions' = << >>
               /\ Reports(<< >>, TRUE, written, FALSE)
               /\ UNCHANGED << state, completions, steps >>
          ELSE LET level == levels[index + 1]
                   count == FragmentCount(level)
               IN /\ targetPositions' \in generatePatternPositions(level.patternType, count)
                  /\ \E scatter \in generateScatteredPositions(count) :
                     \E phase \in PhaseInit :
                        memoryFragments' =
                          [ i \in 1..count |->
                              MemoryFragment(scatter[i], StartCorruption(level), phase) ]
                  /\ state' = "PLAYING"
                  /\ Reports(<< Event("levelStarted", << index >>) >>, FALSE, written, FALSE)
                  /\ completions' = 0
                  /\ steps' = 0

StartLevel(levelIndex) == StartLevelBody(levelIndex, << >>)

\* GameEngine.saveProgress(): the data handed to Utils.saveToLocalStorage and
\* kept in saveData (the timestamp is left out)
saveProgress(level) == << [ currentLevel |-> level ] >>

\* this.currentLevel++ in nextLevel
NextLevelIndex(level) == level + 1

\* GameEngine.nextLevel()
NextLevel ==
    StartLevelBody(NextLevelIndex(currentLevel), saveProgress(NextLevelIndex(currentLevel)))

RestartLevel == StartLevel(currentLevel)

\* Variant: togglePause pauses from every state but PAUSED
PauseTargetAlways(st) == IF st = "PAUSED" THEN "PLAYING" ELSE "PAUSED"

\* The state togglePause moves to
PauseTarget(st) ==
    IF st = "PLAYING" THEN "PAUSED" ELSE IF st = "PAUSED" THEN "PLAYING" ELSE st

\* Variant: togglePause emits `paused` whatever the state
PauseEventsAlways(st) == << Event("paused", << >>) >>

\* The events togglePause emits
PauseEvents(st) ==
    IF st = "PLAYING" THEN << Event("paused", << >>) >>
    ELSE IF st = "PAUSED" THEN << Event("resumed", << >>) >>
    ELSE << >>

TogglePause ==
    /\ state' = PauseTarget(state)
    /\ Reports(PauseEvents(state), FALSE, << >>, FALSE)
    /\ UNCHANGED << currentLevel, mousePos, memoryFragments, gravityWells, connections,
                    targetPositions, particles, canvas, completions, steps >>

ReturnToMenu ==
    /\ state' = "MENU"
    /\ memoryFragments' = << >>
    /\ particles' = clear(particles)
    /\ Reports(<< Event("returnedToMenu", << >>) >>, FALSE, << >>, FALSE)
    /\ completions' = 0
    /\ UNCHANGED << currentLevel, mousePos, gravityWells, connections, targetPositions,
                    canvas, steps >>

\* canvas 'mousemove' listener
MouseMove(p) ==
    /\ mousePos' = p
    /\ Reports(<< >>, FALSE, << >>, FALSE)
    /\ UNCHANGED << state, currentLevel, memoryFragments, gravityWells, connections,
                    targetPositions, particles, canvas, completions, steps >>

\* handleClick goes on past `if (this.state !== 'PLAYING') return;`
ClickActs(st) == st = "PLAYING"

\* The well GameEngine.createGravityWell(x, y) appends
createGravityWell(pos) ==
    [ position |-> pos, strength |-> wellStrength, lifetime |-> wellLifetime,
      maxLifetime |-> wellLifetime, radius |-> wellRadius ]

HandleClick ==
    IF ~ClickActs(state) THEN Nothing
    ELSE /\ steps < MaxSteps
         /\ gravityWells' = Append(gravityWells, createGravityWell(mousePos))
         /\ \E seed \in LifeSeeds : particles' = ParticleEmit(particles, clickParticles, seed)
         /\ Reports(<< >>, FALSE, << >>, FALSE)
         /\ steps' = steps + 1
         /\ UNCHANGED << state, currentLevel, mousePos, memoryFragments, connections,
                         targetPositions, canvas, completions >>

\* Variant: update without its state check
UpdateActsAlways(st) == TRUE

\* update goes on past `if (this.state !== 'PLAYING') return;`
UpdateActs(st) == st = "PLAYING"

\* Variant: completion leaves the state as it is
CompletionStateStay(st, complete) == st

\* if (allConnected) this.state = 'LEVEL_COMPLETE'
CompletionState(st, complete) == IF complete THEN "LEVEL_COMPLETE" ELSE st

\* GameEngine.update(deltaTime)
\* what update does while PLAYING (each intermediate result is bound once)
UpdateEffects(deltaTime) ==
    /\ \E wells \in { AgeWells(gravityWells, deltaTime) } :
       \E frags \in { [ i \in 1..Len(memoryFragments) |->
                          StepFragment(memoryFragments[i], i - 1, wells, deltaTime) ] } :
       \E conns \in { updateConnections(frags) } :
       \E complete \in { checkLevelCompletion(frags, conns) } :
          /\ gravityWells' = wells
          /\ memoryFragments' = frags
          /\ \E emitters \in SUBSET HealingCandidates :
             \E seed \in (IF emitters = {} THEN {0} ELSE LifeSeeds) :
                particles' = ParticleUpdate(EmitHealing(particles, 1, emitters, seed),
                                            deltaTime)
          /\ connections' = conns
          /\ state' = CompletionState(state, complete)
          /\ Results((IF complete
                      THEN << Event("levelComplete", << currentLevel >>) >>
                      ELSE << >>)
                     \o << Event("progressUpdate", << getProgress(frags, conns) >>) >>,
                     FALSE, << >>, complete)
          /\ completions' = IF complete THEN completions + 1 ELSE completions
    /\ UNCHANGED << currentLevel, mousePos, targetPositions, canvas >>

UpdateBody(deltaTime) == UpdateEffects(deltaTime) /\ Idle

Update(deltaTime) ==
    IF ~UpdateActs(state) THEN Nothing
    ELSE /\ steps < MaxSteps
         /\ UpdateBody(deltaTime)
         /\ steps' = steps + 1

\* GameEngine.handleKeyDown(e)
HandleKeyDown(code) ==
    CASE code = "Escape" -> TogglePause
      [] code = "Space" -> IF state = "LEVEL_COMPLETE" THEN NextLevel ELSE Nothing
      [] OTHER -> Nothing

\* fragment.accelerateHealing(amount) on fragment i, as the click handler of
\* the first engine revision called it while PLAYING
AccelerateHealing(i, amount) ==
    /\ state = "PLAYING"
    /\ steps < MaxSteps
    /\ memoryFragments' = [ memoryFragments EXCEPT ![i] = accelerateHealing(@, amount) ]
    /\ Reports(<< >>, FALSE, << >>, FALSE)
    /\ steps' = steps + 1
    /\ UNCHANGED << state, currentLevel, mousePos, gravityWells, connections,
                    targetPositions, particles, canvas, completions >>

Next ==
    \/ \E levelIndex \in LevelInputs : StartLevel(levelIndex)
    \/ NextLevel
    \/ RestartLevel
    \/ TogglePause
    \/ ReturnToMenu
    \/ \E p \in MousePoints : MouseMove(p)
    \/ HandleClick
    \/ \E deltaTime \in DtSet : Update(deltaTime)
    \/ \E code \in KeyCodes : HandleKeyDown(code)

Spec == Init /\ [][Next]_vars

\* The healing interface of MemoryFragment driven directly, on the first level
NextHeal ==
    \/ StartLevel(0)
    \/ TogglePause
    \/ \E p \in MousePoints : MouseMove(p)
    \/ HandleClick
    \/ \E deltaTime \in DtSet : Update(deltaTime)
    \/ \E i \in 1..Len(memoryFragments) : \E amount \in AccelAmounts :
          AccelerateHealing(i, amount)

SpecHeal == Init /\ [][NextHeal]_vars

----------------------------------------------------------------------------
(* checkLevelCompletion on its own: any fragment list of up to              *)
(* MaxCheckFragments fragments, with connections between healed fragments   *)
(* in the order updateConnections lists them                                *)

RECURSIVE ConnectionList(_, _, _, _)
ConnectionList(count, edges, i, j) ==
    IF i > count THEN << >>
    ELSE IF j > count THEN ConnectionList(count, edges, i + 1, i + 2)
    ELSE (IF << i - 1, j - 1 >> \in edges
          THEN << [ from |-> i - 1, to |-> j - 1, strength |-> CorruptionOne - 1000 ] >>
          ELSE << >>) \o ConnectionList(count, edges, i, j + 1)

InitCompletion ==
    /\ state = "PLAYING"
    /\ currentLevel = 0
    /\ mousePos = << 0, 0 >>
    /\ \E count \in 0..MaxCheckFragments :
       \E corruption \in [1..count -> CheckCorruptions] :
       \E edges \in SUBSET { e \in (0..(count - 1)) \X (0..(count - 1)) :
                               /\ e[1] < e[2]
                               /\ corruption[e[1] + 1] < HealedBelow
                               /\ corruption[e[2] + 1] < HealedBelow } :
          /\ memoryFragments =
                [ i \in 1..count |-> MemoryFragment(<< 640, 360 >>, corruption[i], 0) ]
          /\ connections = ConnectionList(count, edges, 1, 2)
    /\ gravityWells = << >>
    /\ targetPositions = << >>
    /\ particles = << >>
    /\ canvas = [ width |-> 1280, height |-> 720 ]
    /\ saved = << >>
    /\ allConnected = FALSE
    /\ emitted = << >>
    /\ threw = FALSE
    /\ completions = 0
    /\ steps = 0
    /\ Quiet

\* One call of checkLevelCompletion(); allConnected holds what it returned
CheckLevelCompletion ==
    /\ steps = 0
    /\ steps' = 1
    /\ Reports(<< >>, FALSE, << >>, checkLevelCompletion(memoryFragments, connections))
    /\ UNCHANGED << state, currentLevel, mousePos, memoryFragments, gravityWells,
                    connections, targetPositions, particles, canvas, completions >>

NextCompletion == CheckLevelCompletion

SpecCompletion == InitCompletion /\ [][NextCompletion]_vars

----------------------------------------------------------------------------
(* ParticleSystem on its own: emit, update and clear called in any order *)

MaxPoolCalls == 4
EmitCounts == {5, 300, 600}          \* emit's default count, and bursts
PoolDts == {30, 100}                 \* deltaTime: 0.3 s, 1 s

InitParticles == Init /\ currentLevel = 0

\* ParticleSystem.emit(x, y, count, color)
PoolEmit(count) ==
    /\ steps < MaxPoolCalls
    /\ \E seed \in LifeSeeds : particles' = ParticleEmit(particles, count, seed)
    /\ steps' = steps + 1
    /\ Reports(<< >>, FALSE, << >>, FALSE)
    /\ UNCHANGED << state, currentLevel, mousePos, memoryFragments, gravityWells,
                    connections, targetPositions, canvas, completions >>

\* ParticleSystem.update(deltaTime)
PoolUpdate(deltaTime) ==
    /\ steps < MaxPoolCalls
    /\ particles' = ParticleUpdate(particles, deltaTime)
    /\ steps' = steps + 1
    /\ Reports(<< >>, FALSE, << >>, FALSE)
    /\ UNCHANGED << state, currentLevel, mousePos, memoryFragments, gravityWells,
                    connections, targetPositions, canvas, completions >>

\* ParticleSystem.clear()
PoolClear ==
    /\ steps < MaxPoolCalls
    /\ particles' = clear(particles)
    /\ steps' = steps + 1
    /\ Reports(<< >>, FALSE, << >>, FALSE)
    /\ UNCHANGED << state, currentLevel, mousePos, memoryFragments, gravityWells,
                    connections, targetPositions, canvas, completions >>

NextParticles ==
    \/ \E count \in EmitCounts : PoolEmit(count)
    \/ \E deltaTime \in PoolDts : PoolUpdate(deltaTime)
    \/ PoolClear

SpecParticles == InitParticles /\ [][NextParticles]_vars

----------------------------------------------------------------------------

(* getProgress on its own: any fragment list of up to MaxProgressFragments  *)
(* fragments, with connections between healed fragments                     *)

MaxProgressFragments == 3
ProgressCorruptions == {0, 2500, CorruptionOne}

InitProgress ==
    /\ state = "PLAYING"
    /\ currentLevel = 0
    /\ mousePos = << 0, 0 >>
    /\ \E count \in 0..MaxProgressFragments :
       \E corruption \in [1..count -> ProgressCorruptions] :
       \E edges \in SUBSET { e \in (0..(count - 1)) \X (0..(count - 1)) :
                               /\ e[1] < e[2]
                               /\ corruption[e[1] + 1] < HealedBelow
                               /\ corruption[e[2] + 1] < HealedBelow } :
          /\ memoryFragments =
                [ i \in 1..count |-> MemoryFragment(<< 640, 360 >>, corruption[i], 0) ]
          /\ connections = ConnectionList(count, edges, 1, 2)
    /\ gravityWells = << >>
    /\ targetPositions = << >>
    /\ particles = << >>
    /\ canvas = [ width |-> 1280, height |-> 720 ]
    /\ saved = << >>
    /\ allConnected = FALSE
    /\ emitted = << >>
    /\ threw = FALSE
    /\ completions = 0
    /\ steps = 0
    /\ Quiet

\* this.emit('progressUpdate', this.getProgress())
EmitProgress ==
    /\ steps = 0
    /\ steps' = 1
    /\ Reports(<< Event("progressUpdate", << getProgress(memoryFragments, connections) >>) >>,
               FALSE, << >>, FALSE)
    /\ UNCHANGED << state, currentLevel, mousePos, memoryFragments, gravityWells,
                    connections, targetPositions, particles, canvas, completions >>

NextProgress == EmitProgress

SpecProgress == InitProgress /\ [][NextProgress]_vars

----------------------------------------------------------------------------

(* The layout generators on their own, for every count up to               *)
(* MaxLayoutCount, the constellation loop sample by sample; and startLevel, *)
(* which calls them                                                         *)

MaxLayoutCount == 4
PatternTypes == { "circle", "spiral", "grid", "mandala", "ring" }   \* "ring": the default branch

InitLayout == Init /\ currentLevel = 0

\* generatePatternPositions(patternType, count) for the patterns without a loop on samples
GeneratePattern(patternType, count) ==
    /\ state = "MENU"
    /\ draw.pc = "idle"
    /\ targetPositions' \in generatePatternPositions(patternType, count)
    /\ draw' = [ pc |-> "done", count |-> count, attempts |-> 0 ]
    /\ Results(<< >>, FALSE, << >>, FALSE)
    /\ IdleExcept("draw")
    /\ UNCHANGED << state, currentLevel, mousePos, memoryFragments, gravityWells,
                    connections, particles, canvas, completions, steps >>

\* generateConstellationPattern(count, width, height) up to its for loop
BeginConstellation(count) ==
    /\ state = "MENU"
    /\ draw.pc = "idle"
    /\ targetPositions' = << >>
    /\ draw' = [ pc |-> IF 0 < count THEN "sampling" ELSE "done",
                 count |-> count, attempts |-> 0 ]
    /\ Results(<< >>, FALSE, << >>, FALSE)
    /\ IdleExcept("draw")
    /\ UNCHANGED << state, currentLevel, mousePos, memoryFragments, gravityWells,
                    connections, particles, canvas, completions, steps >>

\* One pass of the do-while body: q is drawn, attempts++, and q is drawn
\* again if attempts < 50 and an earlier position lies within 80px of it;
\* otherwise q is pushed and the for loop goes on or returns
ConstellationSample(q) ==
    /\ draw.pc = "sampling"
    /\ LET attempts == draw.attempts + 1
           close == \E e \in 1..Len(targetPositions) :
                       DistSq(targetPositions[e], q) < connectDistance * connectDistance
       IN IF attempts < constellationAttempts /\ close
          THEN /\ draw' = [ draw EXCEPT !.attempts = attempts ]
               /\ UNCHANGED targetPositions
          ELSE /\ targetPositions' = Append(targetPositions, q)
               /\ draw' = [ draw EXCEPT !.attempts = 0,
                                        !.pc = IF Len(targetPositions) + 1 < draw.count
                                               THEN "sampling" ELSE "done" ]
    /\ Results(<< >>, FALSE, << >>, FALSE)
    /\ IdleExcept("draw")
    /\ UNCHANGED << state, currentLevel, mousePos, memoryFragments, gravityWells,
                    connections, particles, canvas, completions, steps >>

NextLayout ==
    \/ \E patternType \in PatternTypes : \E count \in 0..MaxLayoutCount :
          GeneratePattern(patternType, count)
    \/ \E count \in 0..MaxLayoutCount : BeginConstellation(count)
    \/ \E q \in ConstellationPoints : ConstellationSample(q)
    \/ \E levelIndex \in 0..(Len(levels) - 1) : draw.pc = "idle" /\ StartLevel(levelIndex)

\* The generators are synchronous code: a loop that can take a step takes it
SpecLayout == InitLayout /\ [][NextLayout]_vars /\ WF_vars(NextLayout)

----------------------------------------------------------------------------

(* Construction and initialize() for every content of the storage entry,   *)
(* followed by what the menu offers                                         *)

\* The engine as the constructor leaves it, before initialize()
InitLoad ==
    /\ state = "MENU"
    /\ currentLevel = 0
    /\ mousePos = << 0, 0 >>
    /\ memoryFragments = << >>
    /\ gravityWells = << >>
    /\ connections = << >>
    /\ targetPositions = << >>
    /\ particles = << >>
    /\ canvas = [ width |-> 1280, height |-> 720 ]
    /\ saved = << >>
    /\ allConnected = FALSE
    /\ emitted = << >>
    /\ threw = FALSE
    /\ completions = 0
    /\ steps = 0
    /\ draw = [ pc |-> "idle", count |-> 0, attempts |-> 0 ]
    /\ loop = [ running |-> FALSE, queued |-> 0, due |-> 0, updates |-> 0, frames |-> 0 ]
    /\ events = << >>
    /\ calls = << >>
    /\ stored \in StoredEntries

\* this.saveData = this.loadProgress() and initialize(canvas):
\* this.currentLevel = this.saveData.currentLevel || 0, which throws when
\* saveData is null; a bare number has no currentLevel member
Initialize ==
    /\ stored # Used
    /\ stored' = Used
    /\ LET saveData == loadProgress(stored)
       IN IF saveData.type = "null"
          THEN /\ Results(<< >>, TRUE, << >>, FALSE)
               /\ UNCHANGED currentLevel
          ELSE /\ currentLevel' = IF saveData.hasLevel /\ saveData.level # 0
                                  THEN saveData.level ELSE 0
               /\ Results(<< Event("initialized", << >>) >>, FALSE, << >>, FALSE)
    /\ IdleExcept("stored")
    /\ UNCHANGED << state, mousePos, memoryFragments, gravityWells, connections,
                    targetPositions, particles, canvas, completions, steps >>

\* MemoryDriftApp.continueGame()
ContinueGame == StartLevel(currentLevel)

NextLoad ==
    \/ Initialize
    \/ stored = Used /\ ContinueGame
    \/ stored = Used /\ TogglePause
    \/ stored = Used /\ ReturnToMenu
    \/ stored = Used /\ \E p \in MousePoints : MouseMove(p)
    \/ stored = Used /\ \E deltaTime \in DtSet : Update(deltaTime)

SpecLoad == InitLoad /\ [][NextLoad]_vars

----------------------------------------------------------------------------

(* The first level left to the game loop: one update per animation frame,   *)
(* for as long as the loop runs                                             *)

\* deltaTime of a frame: 1.22 s, which brings driftPhase back after 103 frames
FrameDts == {122}

InitDrift == Init /\ currentLevel = 0

\* GameEngine.gameLoop(): update(deltaTime), then the next frame is requested
Tick(deltaTime) ==
    IF ~UpdateActs(state) THEN Nothing
    ELSE UpdateBody(deltaTime) /\ UNCHANGED steps

Frame == \E deltaTime \in FrameDts : Tick(deltaTime)

\* MemoryDriftApp.startNewGame(), from the menu
StartNewGame == state = "MENU" /\ StartLevel(0)

NextDrift ==
    \/ StartNewGame
    \/ Frame

\* requestAnimationFrame calls gameLoop again after every frame, and the
\* player starts the game
SpecDrift == InitDrift /\ [][NextDrift]_vars /\ WF_vars(Frame) /\ WF_vars(StartNewGame)

----------------------------------------------------------------------------

(* The game loop: start(), stop() and the animation frames of the browser,  *)
(* which runs the callbacks requested for a frame one after the other with  *)
(* no other handler in between                                              *)

MaxFrames == 2
MaxChains == 3

InitLoop == Init /\ currentLevel = 0

\* gameLoop() past its `if (!this.running) return`: update(deltaTime), draw(),
\* requestAnimationFrame(() => this.gameLoop()); stamped is TRUE when lastTime
\* was set earlier in the same task, so that now - lastTime is 0
LoopBody(stamped) ==
    /\ \E deltaTime \in (IF stamped THEN {0} ELSE FrameDts) :
          IF ~UpdateActs(state) THEN Returned
          ELSE UpdateEffects(deltaTime) /\ UNCHANGED steps
    /\ IdleExcept("loop")

\* GameEngine.start()
Start ==
    /\ loop.due = 0
    /\ loop.queued < MaxChains
    /\ IF loop.running
       THEN Returned /\ IdleExcept("loop") /\ UNCHANGED loop
       ELSE /\ loop' = [ loop EXCEPT !.running = TRUE, !.queued = @ + 1 ]
            /\ LoopBody(TRUE)

\* GameEngine.stop()
Stop ==
    /\ loop.due = 0
    /\ loop' = [ loop EXCEPT !.running = FALSE ]
    /\ Returned
    /\ IdleExcept("loop")

\* The browser begins an animation frame: the callbacks requested so far are
\* the ones it will run
BeginFrame ==
    /\ loop.due = 0
    /\ loop.queued > 0
    /\ loop.frames < MaxFrames
    /\ loop' = [ loop EXCEPT !.due = loop.queued, !.queued = 0, !.updates = 0,
                             !.frames = @ + 1 ]
    /\ Returned
    /\ IdleExcept("loop")

\* One requested callback runs: () => this.gameLoop()
FrameCallback ==
    /\ loop.due > 0
    /\ IF loop.running
       THEN /\ loop' = [ loop EXCEPT !.due = @ - 1, !.queued = @ + 1, !.updates = @ + 1 ]
            /\ LoopBody(loop.updates > 0)
       ELSE /\ loop' = [ loop EXCEPT !.due = @ - 1 ]
            /\ Returned
            /\ IdleExcept("loop")

NextLoop ==
    \/ Start
    \/ Stop
    \/ BeginFrame
    \/ FrameCallback
    \/ loop.due = 0 /\ StartNewGame

SpecLoop == InitLoop /\ [][NextLoop]_vars

----------------------------------------------------------------------------

(* The engine with listeners: callbacks, some of which throw, are           *)
(* registered from the menu; then the first level is played                 *)

MaxListeners == 2
MaxRegistered == 3
MaxStackDepth == 3
ListenerEvents == { "levelComplete", "progressUpdate" }

InitEmitter == Init /\ currentLevel = 0

\* EventEmitter.on(event, callback); `throws` tells whether the callback
\* throws when it is invoked
On(event, throws) ==
    /\ state = "MENU"
    /\ Len(events) < MaxListeners
    /\ events' = Append(events, [ event |-> event, id |-> Len(events) + 1, throws |-> throws ])
    /\ Returned
    /\ IdleExcept("events")

NextEmitter ==
    \/ \E event \in ListenerEvents : \E throws \in BOOLEAN : On(event, throws)
    \/ StartNewGame
    \/ \E deltaTime \in DtSet : Update(deltaTime)

SpecEmitter == InitEmitter /\ [][NextEmitter]_vars

----------------------------------------------------------------------------

(***************************************************************************)
(* Gravity wells over an unbounded run of frames: the player starts the    *)
(* game with the mouse where it was in the menu, clicks within the first   *)
(* MaxSteps operations of the level and pauses at will, while the loop     *)
(* keeps ticking.                                                          *)
(***************************************************************************)
\* GameEngine.gameLoop(): update(deltaTime); steps counts the early frames
WellTick(deltaTime) ==
    IF ~UpdateActs(state) THEN Nothing
    ELSE UpdateBody(deltaTime) /\ steps' = Min(steps + 1, MaxSteps)

WellFrame == \E deltaTime \in FrameDts : WellTick(deltaTime)

NextWells ==
    \/ StartNewGame
    \/ WellFrame
    \/ HandleClick
    \/ TogglePause
    \/ state = "MENU" /\ \E p \in MousePoints : MouseMove(p)

\* requestAnimationFrame calls gameLoop again after every frame
SpecWells == InitDrift /\ [][NextWells]_vars /\ WF_vars(WellFrame)

(***************************************************************************)
(* The window is resized while a level is played.                          *)
(***************************************************************************)
\* window.innerWidth x window.innerHeight at a resize event
WindowSizes == { [ width |-> 1280, height |-> 720 ], [ width |-> 800, height |-> 600 ] }

\* The window's resize listener: GameEngine.resizeCanvas() -> Utils.resizeCanvas(canvas)
ResizeCanvas(size) ==
    /\ canvas' = size
    /\ Reports(<< >>, FALSE, << >>, FALSE)
    /\ UNCHANGED << state, currentLevel, mousePos, memoryFragments, gravityWells, connections,
                    targetPositions, particles, completions, steps >>

NextResize ==
    \/ StartNewGame
    \/ \E deltaTime \in DtSet : Update(deltaTime)
    \/ HandleClick
    \/ \E p \in MousePoints : MouseMove(p)
    \/ \E size \in WindowSizes : ResizeCanvas(size)

SpecResize == InitDrift /\ [][NextResize]_vars

(***************************************************************************)
(* EventEmitter with callbacks that change the listener list while an      *)
(* emission is going on.  A listener is its event, the ordinal of its      *)
(* registration, what its callback does when invoked (return, throw, call  *)
(* off for the listener `target`, or call on for a new listener), whether  *)
(* it is the wrapper once() registers, and how often a wrapper has run.    *)
(***************************************************************************)
CallbackBodies == { "return", "throw", "off", "on" }

Listener(event, id, does, target, wrapper) ==
    [ event |-> event, id |-> id, does |-> does, target |-> target, once |-> wrapper,
      runs |-> 0 ]

\* EventEmitter.on(event, callback): push
on(list, listener) == Append(list, listener)

\* EventEmitter.off(event, callback): indexOf, then splice(index, 1)
off(list, id) ==
    IF \E k \in 1..Len(list) : list[k].id = id
    THEN With(CHOOSE k \in 1..Len(list) :
                 list[k].id = id /\ \A j \in 1..(k - 1) : list[j].id # id,
              LAMBDA index : SubSeq(list, 1, index - 1) \o SubSeq(list, index + 1, Len(list)))
    ELSE list

\* The invoked once() wrapper has run once more (counted up to two)
Ran(list, id) ==
    [ k \in 1..Len(list) |->
        IF list[k].id = id /\ list[k].once
        THEN [ list[k] EXCEPT !.runs = Min(@ + 1, 2) ]
        ELSE list[k] ]

\* callback(...args) for a registered callback: the list and the number of
\* registrations after it.  A callback that registers does so while fewer
\* than MaxRegistered listeners have ever been registered.
callback(list, cb, registrations) ==
    IF cb.does = "off" THEN [ list |-> off(list, cb.target), registrations |-> registrations ]
    ELSE IF cb.does = "on" /\ registrations < MaxRegistered
    THEN [ list |-> on(list, Listener(cb.event, registrations + 1, "return", 0, FALSE)),
           registrations |-> registrations + 1 ]
    ELSE [ list |-> list, registrations |-> registrations ]

\* once(): onceCallback = (...args) => { callback(...args); this.off(event, onceCallback) };
\* a callback that throws leaves the wrapper before off is reached
onceCallback(list, cb, registrations) ==
    With(callback(Ran(list, cb.id), cb, registrations),
         LAMBDA after : IF cb.once /\ cb.does # "throw"
                        THEN [ after EXCEPT !.list = off(after.list, cb.id) ]
                        ELSE after)

\* Variant: forEach over a copy of the array taken when emit starts
RECURSIVE forEachSnapshot(_, _, _, _, _)
forEachSnapshot(list, copy, k, invoked, registrations) ==
    IF k > Len(copy)
    THEN [ list |-> list, calls |-> invoked, registrations |-> registrations ]
    ELSE With(onceCallback(list, copy[k], registrations),
              LAMBDA after : forEachSnapshot(after.list, copy, k + 1,
                                             Append(invoked, copy[k].id),
                                             after.registrations))

\* Array.prototype.forEach on the live array: indices 0 .. (length at the
\* start) - 1, each visited only if the array still has it, reading the
\* element that is there when its turn comes; try/catch around each call
RECURSIVE forEachLive(_, _, _, _, _)
forEachLive(list, k, len, invoked, registrations) ==
    IF k > len \/ k > Len(list)
    THEN [ list |-> list, calls |-> invoked, registrations |-> registrations ]
    ELSE With(onceCallback(list, list[k], registrations),
              LAMBDA after : forEachLive(after.list, k + 1, len,
                                         Append(invoked, list[k].id),
                                         after.registrations))

\* Variant: emit walks a copy of the listener array
emitSnapshot(list, registrations) ==
    forEachSnapshot(list, list, 1, << >>, registrations)

\* EventEmitter.emit(event) on the array of one event
emitLive(list, registrations) ==
    forEachLive(list, 1, Len(list), << >>, registrations)

OwnListeners(event) == SelectSeq(events, LAMBDA c : c.event = event)
OtherListeners(event) == SelectSeq(events, LAMBDA c : c.event # event)

\* What an EventEmitter operation leaves of the engine: nothing of it changes
EmitterOnly ==
    /\ threw' = FALSE
    /\ saved' = << >>
    /\ allConnected' = FALSE
    /\ UNCHANGED << state, currentLevel, mousePos, memoryFragments, gravityWells, connections,
                    targetPositions, particles, canvas, completions >>
    /\ IdleExcept("events")

\* on(event, callback) for a callback with the given body
RegisterOn(event, does, target) ==
    /\ steps < MaxRegistered
    /\ events' = OtherListeners(event)
                    \o on(OwnListeners(event), Listener(event, steps + 1, does, target, FALSE))
    /\ steps' = steps + 1
    /\ emitted' = << >>
    /\ calls' = << >>
    /\ EmitterOnly

\* once(event, callback) for a callback that returns or throws
RegisterOnce(event, does) ==
    /\ steps < MaxRegistered
    /\ events' = OtherListeners(event)
                    \o on(OwnListeners(event), Listener(event, steps + 1, does, 0, TRUE))
    /\ steps' = steps + 1
    /\ emitted' = << >>
    /\ calls' = << >>
    /\ EmitterOnly

\* emit(event)
EmitEvent(event) ==
    /\ \E done \in { emitLive(OwnListeners(event), steps) } :
          /\ events' = OtherListeners(event) \o done.list
          /\ calls' = done.calls
          /\ steps' = done.registrations
    /\ emitted' = << Event(event, << >>) >>
    /\ EmitterOnly

InitListeners == Init /\ currentLevel = 0

NextListeners ==
    \/ \E event \in ListenerEvents : \E does \in CallbackBodies \ { "off" } :
          RegisterOn(event, does, 0)
    \/ \E event \in ListenerEvents : \E target \in 1..MaxRegistered :
          RegisterOn(event, "off", target)
    \/ \E event \in ListenerEvents : \E does \in { "return", "throw" } :
          RegisterOnce(event, does)
    \/ \E event \in ListenerEvents : EmitEvent(event)

SpecListeners == InitListeners /\ [][NextListeners]_vars

(***************************************************************************)
(* MemoryDriftApp on top of the engine: the application subscribes its own *)
(* returnToMenu to the engine's returnedToMenu event.  The call stack has  *)
(* room for `room` nested MemoryDriftApp.returnToMenu calls; the call that *)
(* no longer fits raises a RangeError, which the try/catch of the emit     *)
(* that invoked the listener catches.                                      *)
(***************************************************************************)
StackRooms == 2..MaxStackDepth

\* MemoryDriftApp.returnToMenu() at call depth `depth`: game.returnToMenu()
\* emits returnedToMenu, whose listener is MemoryDriftApp.returnToMenu again;
\* the events emitted, outermost first
RECURSIVE appReturnToMenu(_, _)
appReturnToMenu(depth, room) ==
    IF depth >= room
    THEN << >>
    ELSE << Event("returnedToMenu", << >>) >> \o appReturnToMenu(depth + 1, room)

\* A menu request through the application: MemoryDriftApp.returnToMenu()
AppReturnToMenu ==
    /\ state' = "MENU"
    /\ memoryFragments' = << >>
    /\ particles' = clear(particles)
    /\ \E room \in StackRooms : Reports(appReturnToMenu(0, room), FALSE, << >>, FALSE)
    /\ completions' = 0
    /\ UNCHANGED << currentLevel, mousePos, gravityWells, connections, targetPositions,
                    canvas, steps >>

NextApp ==
    \/ StartNewGame
    \/ \E deltaTime \in DtSet : Update(deltaTime)
    \/ HandleClick
    \/ \E p \in MousePoints : MouseMove(p)
    \/ AppReturnToMenu

SpecApp == InitDrift /\ [][NextApp]_vars

-----------------------------------------------------------------------------
(* Properties *)

LevelCount == Len(levels)

\* The step started a level: the fragment list is a newly spawned one
LevelStarted == emitted # << >> /\ emitted[1].name = "levelStarted"

\* C1: after any sequence of startLevel, update ticks and accelerateHealing
\* calls, every fragment's corruptionLevel lies in [0, 1].
C1_CorruptionInUnitRange ==
    \A i \in 1..Len(memoryFragments) :
       /\ memoryFragments[i].corruptionLevel >= 0
       /\ memoryFragments[i].corruptionLevel <= CorruptionOne

\* A fragment whose healing was slowed below zero has been updated
C1_NegativeRateUpdated ==
    \E i \in 1..Len(memoryFragments) :
       /\ memoryFragments[i].acceleratedHealRate < 0
       /\ memoryFragments[i].driftPhase > 1571

\* C2: no operation on an existing fragment raises its corruptionLevel: over
\* every step that does not spawn a new fragment list, each fragment's
\* corruptionLevel after the step is at most its value before.
C2_CorruptionNeverRises ==
    [][ ~LevelStarted' =>
          \A i \in 1..Len(memoryFragments) :
             i <= Len(memoryFragments') =>
               memoryFragments'[i].corruptionLevel <= memoryFragments[i].corruptionLevel ]_vars

\* C3: the engine starts in MENU and every change of state follows one of
\* MENU->PLAYING, PLAYING->PAUSED, PAUSED->PLAYING, PLAYING->LEVEL_COMPLETE,
\* LEVEL_COMPLETE->PLAYING or any state->MENU.
C3_StateEdges ==
    /\ state = "MENU"
    /\ [][ \/ state' = state
           \/ state' = "MENU"
           \/ << state, state' >> \in { << "MENU", "PLAYING" >>,
                                        << "PLAYING", "PAUSED" >>,
                                        << "PAUSED", "PLAYING" >>,
                                        << "PLAYING", "LEVEL_COMPLETE" >>,
                                        << "LEVEL_COMPLETE", "PLAYING" >> } ]_vars

\* A level was completed, then the engine was asked to pause: still LEVEL_COMPLETE
C3_CompleteThenToggle ==
    state = "LEVEL_COMPLETE" /\ completions = 1 /\ emitted = << >>

\* The connection list joins every fragment index into one component: every
\* proper non-empty part of the indices has a connection leaving it
OneComponent(count, conns) ==
    \A part \in SUBSET (0..(count - 1)) :
       (part # {} /\ part # 0..(count - 1)) =>
          \E k \in 1..Len(conns) :
             (conns[k].from \in part) # (conns[k].to \in part)

\* C4: checkLevelCompletion returns true exactly when there is at least one
\* fragment, every fragment has corruptionLevel < 0.3, and the connection
\* list joins all fragment indices into a single component.
C4_CompletionIffHealedAndConnected ==
    steps = 1 =>
      (allConnected <=>
         /\ Len(memoryFragments) > 0
         /\ \A i \in 1..Len(memoryFragments) : memoryFragments[i].corruptionLevel < HealedBelow
         /\ OneComponent(Len(memoryFragments), connections))

\* The check returned true for a chain that must be followed against the
\* direction of a connection: 0-2 and 1-2 only
C4_CompleteThroughBackEdge ==
    /\ steps = 1
    /\ allConnected
    /\ Len(memoryFragments) = 3
    /\ Len(connections) = 2
    /\ connections[1].to = 2
    /\ connections[2].from = 1

LevelCompleteEvents ==
    { k \in 1..Len(emitted) : emitted[k].name = "levelComplete" }

\* C5: between one levelStarted and the next levelStarted or returnedToMenu,
\* levelComplete is emitted at most once: exactly on the PLAYING tick whose
\* completion check holds, carrying the current level index and leaving the
\* state LEVEL_COMPLETE, from which no operation emits it again.
C5_LevelCompleteOnce ==
    /\ [](completions <= 1)
    /\ [](state = "LEVEL_COMPLETE" => completions = 1)
    /\ [](Cardinality(LevelCompleteEvents) <= 1)
    /\ [][ /\ LevelCompleteEvents' # {} <=> allConnected'
           /\ allConnected' =>
                /\ state = "PLAYING"
                /\ state' = "LEVEL_COMPLETE"
                /\ completions = 0
                /\ emitted'[1] = Event("levelComplete", << currentLevel >>) ]_vars

\* A tick arrived after the level was completed
C5_TickAfterComplete ==
    state = "LEVEL_COMPLETE" /\ completions = 1 /\ steps = 1 /\ emitted = << >>

\* C6: in MENU, PAUSED or LEVEL_COMPLETE an update tick and a click leave
\* fragments, wells, connections, particles, current level and state
\* unchanged and emit nothing.
C6_IdleWhenNotPlaying ==
    [][ (state # "PLAYING" /\ (HandleClick \/ \E deltaTime \in DtSet : Update(deltaTime))) =>
          /\ UNCHANGED << memoryFragments, gravityWells, connections, particles,
                          currentLevel, state >>
          /\ emitted' = << >> ]_vars

\* A tick or click arrived while paused with a gravity well and particles alive
C6_PausedWithLiveWell ==
    /\ state = "PAUSED"
    /\ emitted = << >>
    /\ Len(gravityWells) > 0
    /\ Len(particles) > 0

\* C7: togglePause turns PLAYING into PAUSED with one paused event, PAUSED
\* into PLAYING with one resumed event, and does nothing in MENU or
\* LEVEL_COMPLETE; fragments, wells, connections and current level stay.
C7_TogglePause ==
    [][ TogglePause =>
          /\ state = "PLAYING" => (state' = "PAUSED" /\ emitted' = << Event("paused", << >>) >>)
          /\ state = "PAUSED" => (state' = "PLAYING" /\ emitted' = << Event("resumed", << >>) >>)
          /\ state \in { "MENU", "LEVEL_COMPLETE" } => (state' = state /\ emitted' = << >>)
          /\ UNCHANGED << memoryFragments, gravityWells, connections, currentLevel >> ]_vars

\* The game was resumed with a gravity well in place
C7_ResumedWithWell ==
    /\ state = "PLAYING"
    /\ emitted = << Event("resumed", << >>) >>
    /\ Len(gravityWells) > 0

\* C8: for every integer index, negative ones and ones past the catalog
\* included, startLevel raises no error and ends with currentLevel in
\* [0, levelCount) and state PLAYING; an index >= levelCount starts level 0.
C8_StartLevelTotal ==
    [][ \A levelIndex \in LevelInputs :
          StartLevel(levelIndex) =>
            /\ ~threw'
            /\ currentLevel' \in 0..(LevelCount - 1)
            /\ state' = "PLAYING"
            /\ levelIndex >= LevelCount => currentLevel' = 0 ]_vars

\* startLevel threw and left a negative current level
C8_StartLevelThrew == threw /\ currentLevel < 0

\* What startLevel(i) leaves behind, for a catalog index i
StartedLevel(i) ==
    /\ gravityWells = << >>
    /\ connections = << >>
    /\ particles = << >>
    /\ Len(memoryFragments) = FragmentCount(levels[i + 1])
    /\ Len(targetPositions) = FragmentCount(levels[i + 1])
    /\ \A k \in 1..Len(memoryFragments) :
          /\ memoryFragments[k].corruptionLevel = CorruptionOne
          /\ memoryFragments[k].velocity = << 0, 0 >>
          /\ memoryFragments[k].mass = 1
    /\ state = "PLAYING"
    /\ emitted = << Event("levelStarted", << i >>) >>

\* C9: after startLevel(i) returns, for a catalog index i and whatever the
\* state before: wells, connections and particles are empty, there are the
\* level's fragmentCount fragments (as cut to MaxFragments) and as many
\* targets, every fragment has corruptionLevel 1.0, velocity (0,0) and mass
\* 1, the state is PLAYING and exactly one levelStarted(i) was emitted.
C9_StartLevelResult ==
    [][ \A i \in 0..(LevelCount - 1) : StartLevel(i) => StartedLevel(i)' ]_vars

\* The fourth level, whose baseCorruption is 0.9, was started
C9_StartedFourthLevel ==
    /\ StartedLevel(3)
    /\ saved = << >>
    /\ levels[4].baseCorruption # CorruptionOne

\* The fragment list is a newly spawned one
FreshFragments ==
    /\ Len(memoryFragments) = FragmentCount(levels[currentLevel + 1])
    /\ \A k \in 1..Len(memoryFragments) :
          /\ memoryFragments[k].corruptionLevel = CorruptionOne
          /\ memoryFragments[k].position = memoryFragments[k].basePosition
          /\ memoryFragments[k].velocity = << 0, 0 >>
          /\ memoryFragments[k].acceleratedHealRate = 0

C11_PoolKeepsNewest ==
    /\ [](Len(particles) <= maxParticles)
    /\ [][ \A count \in EmitCounts :
             PoolEmit(count) =>
               LET before == Len(particles)
                   total == before + count
                   kept == Len(particles')
               IN /\ kept = Min(total, maxParticles)
                  /\ \E seed \in LifeSeeds :
                       \A j \in 1..kept :
                          LET created == total - kept + j
                          IN particles'[j] = IF created <= before
                                             THEN particles[created]
                                             ELSE Particle(seed, created - before) ]_vars

\* A burst of 600 into the empty pool left 500
C11_BurstIntoEmptyPool ==
    steps = 1 /\ Len(particles) = maxParticles

\* C12: whatever amounts accelerateHealing is called with, between updates
\* or not, acceleratedHealRate never exceeds 0.5, and a call sets it to
\* min(0.5, previous + amount).
C12_AccelerationCapped ==
    /\ [](\A i \in 1..Len(memoryFragments) :
             memoryFragments[i].acceleratedHealRate <= acceleratedHealCap)
    /\ [][ \A i \in 1..Len(memoryFragments) : \A amount \in AccelAmounts :
             AccelerateHealing(i, amount) =>
               memoryFragments'[i].acceleratedHealRate =
                 IF memoryFragments[i].acceleratedHealRate + amount < acceleratedHealCap
                 THEN memoryFragments[i].acceleratedHealRate + amount
                 ELSE acceleratedHealCap ]_vars

\* A call that would have passed 0.5 left the rate at 0.5
C12_RateAtCap ==
    \E i \in 1..Len(memoryFragments) :
       memoryFragments[i].acceleratedHealRate = acceleratedHealCap

RECURSIVE HealedTotal(_, _)
HealedTotal(frags, i) ==
    IF i > Len(frags) THEN 0
    ELSE (CorruptionOne - frags[i].corruptionLevel) + HealedTotal(frags, i + 1)

\* C13: for n >= 1 fragments getProgress is half the mean of
\* (1 - corruptionLevel) plus half of connections / (n(n-1)/2), the second
\* term being 0 when n(n-1)/2 is 0.  With pairs == n(n-1)/2 and value v in
\* 1/10000 the equation is, multiplied out and up to the two truncated
\* digits,  2 n pairs v <= pairs * sum(1 - c) + n * links < 2 n pairs (v + 2).
C13_ProgressFormula ==
    (steps = 1 /\ Len(memoryFragments) > 0) =>
      LET n == Len(memoryFragments)
          pairs == (n * (n - 1)) \div 2
          v == emitted[1].args[1]
          healed == HealedTotal(memoryFragments, 1)
          links == Len(connections) * CorruptionOne
      IN IF pairs = 0
         THEN 2 * n * v <= healed /\ healed < 2 * n * (v + 2)
         ELSE /\ 2 * n * pairs * v <= pairs * healed + n * links
              /\ pairs * healed + n * links < 2 * n * pairs * (v + 2)

\* Two fragments with corruption 0.0 and 1.0 and no connection: 0.25
C13_QuarterProgress ==
    /\ steps = 1
    /\ Len(memoryFragments) = 2
    /\ memoryFragments[1].corruptionLevel = 0
    /\ memoryFragments[2].corruptionLevel = CorruptionOne
    /\ connections = << >>
    /\ emitted = << Event("progressUpdate", << 2500 >>) >>

\* C14: every progressUpdate event carries a value in [0,1], and
\* getProgress is 0 whenever the fragment list is empty.
C14_ProgressInUnitRange ==
    /\ \A k \in 1..Len(emitted) :
          emitted[k].name = "progressUpdate" =>
             emitted[k].args[1] >= 0 /\ emitted[k].args[1] <= CorruptionOne
    /\ memoryFragments = << >> => getProgress(memoryFragments, connections) = 0

\* A tick emitted progressUpdate while a fragment's heal rate was negative
C14_ProgressAfterNegativeRate ==
    /\ \E k \in 1..Len(emitted) : emitted[k].name = "progressUpdate"
    /\ \E i \in 1..Len(memoryFragments) : memoryFragments[i].corruptionLevel > CorruptionOne

C19_LayoutCounts ==
    /\ [](draw.pc = "done" => Len(targetPositions) = draw.count)
    /\ [](\A i \in 1..Len(memoryFragments) : i \in DOMAIN targetPositions)
    /\ [](draw.attempts < constellationAttempts)
    /\ (draw.pc = "sampling" ~> draw.pc = "done")

\* A constellation of MaxLayoutCount sampled points came back with the same
\* point in it twice: the 50th sample of a point was kept
C19_FiftiethSampleKept ==
    /\ draw.pc = "done"
    /\ draw.count = MaxLayoutCount
    /\ \A i \in 1..Len(targetPositions) : targetPositions[i] \in ConstellationPoints
    /\ \E i, j \in 1..Len(targetPositions) :
          i < j /\ targetPositions[i] = targetPositions[j]

\* C16: whatever the storage entry holds (no key, an access that throws,
\* text that is not JSON, JSON that is not a progress object), constructing
\* and initializing the engine raises no error and leaves currentLevel a
\* valid level index.
C16_LoadTolerated ==
    [][ Initialize => ~threw' /\ currentLevel' \in 0..(LevelCount - 1) ]_vars

\* initialize() ended in a TypeError, before 'initialized' was emitted
C16_InitializeThrew ==
    stored = Used /\ threw /\ emitted = << >> /\ state = "MENU" /\ targetPositions = << >>

FarFromTarget(i) ==
    /\ i \in DOMAIN memoryFragments /\ i \in DOMAIN targetPositions
    /\ DistSq(memoryFragments[i].position, targetPositions[i]) > 50 * 50

WithinTarget(i) ==
    /\ i \in DOMAIN memoryFragments /\ i \in DOMAIN targetPositions
    /\ DistSq(memoryFragments[i].position, targetPositions[i]) <= 50 * 50

\* C17: while PLAYING, a fragment farther than 50px from its target is
\* moved toward it by the update ticks and eventually comes within 50px of
\* it (unless the level stops being played first).
C17_FragmentsReachTargets ==
    \A i \in 1..MaxFragments :
       (state = "PLAYING" /\ FarFromTarget(i)) ~> (state # "PLAYING" \/ WithinTarget(i))

\* The attraction has built up a velocity of more than 100 px/s toward the
\* target, and the fragment is still within its drift of where it was scattered
C17_PulledButNotMoved ==
    /\ state = "PLAYING"
    /\ \E i \in 1..Len(memoryFragments) :
          /\ FarFromTarget(i)
          /\ DistSq(memoryFragments[i].velocity, << 0, 0 >>) > 1000 * 1000
          /\ DistSq(memoryFragments[i].position, memoryFragments[i].basePosition) <= 15 * 15

\* C18: however start(), stop() and the animation frames interleave, at
\* most one game-loop chain is live (at most one gameLoop callback is
\* requested or due) and a frame runs at most one update.
C18_OneLoopChain ==
    /\ loop.queued + loop.due <= 1
    /\ loop.updates <= 1

\* Two updates ran in one animation frame of a level being played
C18_TwoUpdatesInOneFrame ==
    loop.updates = 2 /\ loop.running /\ state = "PLAYING"

\* The callbacks registered for the k-th and later events of the last operation
RECURSIVE ListenersOf(_)
ListenersOf(k) ==
    IF k > Len(emitted) THEN << >>
    ELSE SelectSeq(events, LAMBDA c : c.event = emitted[k].name) \o ListenersOf(k + 1)

\* C20: a callback that throws does not keep the other callbacks from being
\* invoked, emit returns normally, and the operation that emitted runs to
\* its end: every callback registered for an emitted event was invoked, in
\* order, no error reached the operation, and an update that emitted
\* levelComplete went on to emit progressUpdate.
C20_ListenerFailuresIsolated ==
    /\ ~threw
    /\ calls = ListenersOf(1)
    /\ (\E k \in 1..Len(emitted) : emitted[k].name = "levelComplete") =>
          /\ state = "LEVEL_COMPLETE"
          /\ emitted[Len(emitted)].name = "progressUpdate"

\* A levelComplete callback threw, and the progressUpdate callback
\* registered after it was still invoked by the same update
C20_InvokedAfterThrower ==
    /\ Len(calls) = 2
    /\ calls[1].event = "levelComplete" /\ calls[1].throws
    /\ calls[2].event = "progressUpdate"
    /\ state = "LEVEL_COMPLETE"

\* The last operation was an update tick of a level being played
Ticked == \E k \in 1..Len(emitted) : emitted[k].name = "progressUpdate"

\* Pairs i < j (0-based) of fragments both below 0.3 and less than 80px apart
ClosePairs ==
    { p \in (0..(Len(memoryFragments) - 1)) \X (0..(Len(memoryFragments) - 1)) :
        /\ p[1] < p[2]
        /\ memoryFragments[p[1] + 1].corruptionLevel < 3000
        /\ memoryFragments[p[2] + 1].corruptionLevel < 3000
        /\ DistSq(memoryFragments[p[1] + 1].position, memoryFragments[p[2] + 1].position) < 6400 }

\* C21: after the updateConnections of a PLAYING tick the connection list
\* holds exactly one edge {from: i, to: j}, i < j, for every pair of
\* fragments both below 0.3 and less than 80px apart, and no other edge;
\* its strength is 1 - max of the two corruptions; and the completion check
\* of the tick saw this list.
C21_ConnectionsExact ==
    Ticked =>
      /\ { << connections[k].from, connections[k].to >> : k \in 1..Len(connections) } = ClosePairs
      /\ Len(connections) = Cardinality(ClosePairs)
      /\ \A k \in 1..Len(connections) :
            LET a == memoryFragments[connections[k].from + 1].corruptionLevel
                b == memoryFragments[connections[k].to + 1].corruptionLevel
            IN connections[k].strength = CorruptionOne - (IF a > b THEN a ELSE b)
      /\ allConnected = checkLevelCompletion(memoryFragments, connections)

\* A tick left some pairs connected and others not
C21_SomePairsConnected ==
    /\ Ticked
    /\ connections # << >>
    /\ Len(connections) < (Len(memoryFragments) * (Len(memoryFragments) - 1)) \div 2

\* Number of the first k particles of the pool that outlive deltaTime
Outliving(pool, k, deltaTime) ==
    Cardinality({ j \in 1..k : pool[j].lifetime - deltaTime > 0 })

\* The pool after is the particles of the pool before with more than deltaTime left, in order
SurvivorsOf(before, after, deltaTime) ==
    /\ Len(after) = Outliving(before, Len(before), deltaTime)
    /\ \A k \in 1..Len(before) :
          before[k].lifetime - deltaTime > 0 =>
             after[Outliving(before, k, deltaTime)] =
                [ lifetime |-> before[k].lifetime - deltaTime, maxLifetime |-> before[k].maxLifetime ]

\* C22: ParticleSystem.update(dt) leaves exactly the pooled particles whose
\* lifetime minus dt is positive, in their previous order, and no particle
\* with lifetime <= 0 is ever in the pool afterwards.
C22_UpdateKeepsLiving ==
    /\ [](\A k \in 1..Len(particles) : particles[k].lifetime > 0)
    /\ [][\A deltaTime \in PoolDts :
             PoolUpdate(deltaTime) => SurvivorsOf(particles, particles', deltaTime)]_vars

\* An update removed some particles of a burst and aged the ones it kept
C22_SomeRemovedSomeKept ==
    /\ Len(particles) \in 1..4
    /\ \A k \in 1..Len(particles) : particles[k].lifetime < particles[k].maxLifetime

\* The step is an update tick of a level being played
PlayingTick == state = "PLAYING" /\ WellFrame

\* Number of the first k wells that outlast deltaTime
Outlasting(wells, k, deltaTime) ==
    Cardinality({ j \in 1..k : wells[j].lifetime - deltaTime > 0 })

\* A tick takes deltaTime from every well, drops those left with no lifetime
\* before any force is applied, and keeps the others in order
WellsAged(deltaTime) ==
    /\ Len(gravityWells') = Outlasting(gravityWells, Len(gravityWells), deltaTime)
    /\ \A k \in 1..Len(gravityWells) :
          gravityWells[k].lifetime - deltaTime > 0 =>
             /\ gravityWells'[Outlasting(gravityWells, k, deltaTime)].lifetime
                   = gravityWells[k].lifetime - deltaTime
             /\ gravityWells'[Outlasting(gravityWells, k, deltaTime)].position
                   = gravityWells[k].position
    /\ memoryFragments' =
          [ i \in 1..Len(memoryFragments) |->
              StepFragment(memoryFragments[i], i - 1, gravityWells', deltaTime) ]

\* Any other step leaves the wells it keeps as they were, and a new well starts at 3.0
WellsKept ==
    /\ \A k \in 1..Len(gravityWells') :
          IF k <= Len(gravityWells) THEN gravityWells'[k] = gravityWells[k]
          ELSE gravityWells'[k].lifetime = 300
    /\ Len(gravityWells') \in { 0, Len(gravityWells), Len(gravityWells) + 1 }
    /\ state = "PAUSED" => gravityWells' = gravityWells

\* C23: a gravity well starts with lifetime 3.0, loses dt on every PLAYING
\* tick and on no other step, is dropped at the start of the first tick that
\* leaves it no lifetime, before forces are applied; so every well in the
\* list has 0 < lifetime <= 3.0, and while PLAYING ticks with dt > 0 go on
\* every well is eventually removed.
C23_WellLifetime ==
    /\ [](\A k \in 1..Len(gravityWells) :
             gravityWells[k].lifetime > 0 /\ gravityWells[k].lifetime <= 300)
    /\ [][IF PlayingTick THEN \A deltaTime \in FrameDts : WellsAged(deltaTime)
                         ELSE WellsKept]_vars
    /\ (gravityWells # << >>) ~> (gravityWells = << >> \/ state # "PLAYING")

\* A well within reach of a fragment has gone through two ticks and is still in the list
C23_WellInLastTick ==
    /\ Ticked
    /\ \E k \in 1..Len(gravityWells) :
          /\ gravityWells[k].lifetime = 56
          /\ \E i \in 1..Len(memoryFragments) :
                DistSq(memoryFragments[i].position, gravityWells[k].position) < 100 * 100

\* C24: at the end of every PLAYING update tick every fragment is at least
\* 50px inside each canvas edge, whatever ticks, clicks and resizes came before.
C24_FragmentsInsideMargin ==
    Ticked =>
       \A i \in 1..Len(memoryFragments) :
          /\ memoryFragments[i].position[1] >= 50
          /\ memoryFragments[i].position[1] <= canvas.width - 50
          /\ memoryFragments[i].position[2] >= 50
          /\ memoryFragments[i].position[2] <= canvas.height - 50

\* A tick after the window shrank below a fragment's spawn point
C24_TickAfterShrink ==
    /\ Ticked
    /\ \E i \in 1..Len(memoryFragments) :
          memoryFragments[i].basePosition[1] > canvas.width - 50

\* The registration ordinals of a listener list, in order
Ids(list) == [ k \in 1..Len(list) |-> list[k].id ]

\* C25: an emission invokes every callback registered for the event when
\* emit starts exactly once, in registration order, whatever the callbacks
\* remove or register meanwhile, and invokes no listener added during it.
C25_EmitUsesSnapshot ==
    [][\A event \in ListenerEvents :
          EmitEvent(event) => calls' = Ids(OwnListeners(event))]_vars

\* After an emission a listener that was registered before it is still
\* registered and was not invoked
C25_ListenerSkipped ==
    /\ emitted # << >>
    /\ \E k \in 1..Len(events) :
          /\ events[k].event = emitted[1].name
          /\ events[k].does = "throw"
          /\ ~events[k].once
          /\ \A j \in 1..Len(calls) : calls[j] # events[k].id

\* C26: in every reachable state the derived lists belong to the current
\* fragments: every connection has 0 <= from < to < fragment count, and the
\* connection, gravity-well and target-position lists are empty whenever the
\* fragment list is empty.
C26_DerivedListsBelong ==
    /\ \A k \in 1..Len(connections) :
          /\ 0 <= connections[k].from
          /\ connections[k].from < connections[k].to
          /\ connections[k].to < Len(memoryFragments)
    /\ memoryFragments = << >> =>
          connections = << >> /\ gravityWells = << >> /\ targetPositions = << >>

\* Back in the menu with no fragments, a connection between two of them is still listed
C26_ConnectionOutlivesFragments ==
    /\ state = "MENU"
    /\ memoryFragments = << >>
    /\ connections # << >>
    /\ targetPositions # << >>

C28_SavedLevelIsCurrent ==
    \A k \in 1..Len(saved) :
       /\ saved[k].currentLevel >= 0
       /\ saved[k].currentLevel < Len(levels)
       /\ saved[k].currentLevel = currentLevel

\* nextLevel on the last level has returned: level 0 is being played and
\* the index written is levelCount
C28_SavedPastLastLevel ==
    /\ saved = << [ currentLevel |-> Len(levels) ] >>
    /\ currentLevel = 0
    /\ state = "PLAYING"

\* C29: a callback registered with once(event, cb) is invoked at most once
\* over any number of later emissions, also when cb throws on its first
\* invocation, and is no longer registered after that first invocation.
C29_OnceRunsOnce ==
    \A k \in 1..Len(events) : events[k].once => events[k].runs = 0

\* A once() wrapper whose callback threw has been invoked by two emissions
C29_WrapperRanTwice ==
    \E k \in 1..Len(events) :
       events[k].once /\ events[k].does = "throw" /\ events[k].runs = 2

\* C30: a return-to-menu request made through the application ends after
\* GameEngine.returnToMenu has run once and returnedToMenu has been emitted
\* once, without mutual recursion between the handler and the engine.
C30_OneReturnPerRequest ==
    Cardinality({ k \in 1..Len(emitted) : emitted[k].name = "returnedToMenu" }) <= 1

\* One request, made while a level was played, emitted returnedToMenu as
\* often as the call stack had room for
C30_EmittedUntilStackFull ==
    /\ state = "MENU"
    /\ targetPositions # << >>
    /\ Len(emitted) = MaxStackDepth
    /\ \A k \in 1..Len(emitted) : emitted[k].name = "returnedToMenu"

====
